---- MODULE Spec2Model ----
(***************************************************************************)
(* Model of the MQTT fixed-header decoder of src/lib.rs:                   *)
(* FixedHeader::parse = packet_byte followed by remaining_length.          *)
(* Bytes are integers 0..255, slices are sequences of bytes.  The loop of  *)
(* remaining_length is modelled one iteration per step.                    *)
(***************************************************************************)
EXTENDS Integers, Sequences, FiniteSets, TLC

\* ------------------------------------------------------------------------
\* Bounds of the checked input space
\* ------------------------------------------------------------------------

\* longest input (in bytes) drawn from LenBytes after one of FirstBytes
MaxLen == 7

\* longest input (in bytes) whose byte 0 ranges over all 256 values
MaxTypeLen == 3

\* ------------------------------------------------------------------------
\* Integer widths
\* ------------------------------------------------------------------------

\* the model checker computes in 32-bit signed integers, so every i32 result
\* below is formed without an intermediate value outside the i32 range

I32Min == -2147483647 - 1

I32Max == 2147483647

\* ------------------------------------------------------------------------
\* PacketType and its fallible conversion
\* ------------------------------------------------------------------------

PacketType ==
    {"Connect", "Connack", "Publish", "Puback", "PubRec", "PubRel", "PubComp",
     "Subscribe", "Suback", "Unsubscribe", "Unsuback", "PingReq", "PingResp",
     "Disconnect"}

\* a conversion that accepts the reserved code 15
TryFromU8_Accept15(value) ==
    CASE value = 1  -> [ok |-> TRUE, variant |-> "Connect", value |-> value]
      [] value = 2  -> [ok |-> TRUE, variant |-> "Connack", value |-> value]
      [] value = 3  -> [ok |-> TRUE, variant |-> "Publish", value |-> value]
      [] value = 4  -> [ok |-> TRUE, variant |-> "Puback", value |-> value]
      [] value = 5  -> [ok |-> TRUE, variant |-> "PubRec", value |-> value]
      [] value = 6  -> [ok |-> TRUE, variant |-> "PubRel", value |-> value]
      [] value = 7  -> [ok |-> TRUE, variant |-> "PubComp", value |-> value]
      [] value = 8  -> [ok |-> TRUE, variant |-> "Subscribe", value |-> value]
      [] value = 9  -> [ok |-> TRUE, variant |-> "Suback", value |-> value]
      [] value = 10 -> [ok |-> TRUE, variant |-> "Unsubscribe", value |-> value]
      [] value = 11 -> [ok |-> TRUE, variant |-> "Unsuback", value |-> value]
      [] value = 12 -> [ok |-> TRUE, variant |-> "PingReq", value |-> value]
      [] value = 13 -> [ok |-> TRUE, variant |-> "PingResp", value |-> value]
      [] value \in {14, 15} -> [ok |-> TRUE, variant |-> "Disconnect", value |-> value]
      [] OTHER      -> [ok |-> FALSE, variant |-> "None", value |-> value]

\* impl TryFrom<u8> for PacketType; on failure `value` is the payload of
\* InvalidPacketTypeError
TryFromU8(value) ==
    CASE value = 1  -> [ok |-> TRUE, variant |-> "Connect", value |-> value]
      [] value = 2  -> [ok |-> TRUE, variant |-> "Connack", value |-> value]
      [] value = 3  -> [ok |-> TRUE, variant |-> "Publish", value |-> value]
      [] value = 4  -> [ok |-> TRUE, variant |-> "Puback", value |-> value]
      [] value = 5  -> [ok |-> TRUE, variant |-> "PubRec", value |-> value]
      [] value = 6  -> [ok |-> TRUE, variant |-> "PubRel", value |-> value]
      [] value = 7  -> [ok |-> TRUE, variant |-> "PubComp", value |-> value]
      [] value = 8  -> [ok |-> TRUE, variant |-> "Subscribe", value |-> value]
      [] value = 9  -> [ok |-> TRUE, variant |-> "Suback", value |-> value]
      [] value = 10 -> [ok |-> TRUE, variant |-> "Unsubscribe", value |-> value]
      [] value = 11 -> [ok |-> TRUE, variant |-> "Unsuback", value |-> value]
      [] value = 12 -> [ok |-> TRUE, variant |-> "PingReq", value |-> value]
      [] value = 13 -> [ok |-> TRUE, variant |-> "PingResp", value |-> value]
      [] value = 14 -> [ok |-> TRUE, variant |-> "Disconnect", value |-> value]
      [] OTHER      -> [ok |-> FALSE, variant |-> "None", value |-> value]

\* ------------------------------------------------------------------------
\* Bit-level readers (nom::bits::complete::take inside nom::bits::bits)
\* ------------------------------------------------------------------------

\* the streaming reader reports a short input as Incomplete
TakeErr_Streaming(in, nbits) == IF Len(in) * 8 < nbits THEN "Incomplete" ELSE "None"

\* error kind of the first take(nbits) on slice `in`: the complete reader
\* fails with ErrorKind::Eof when fewer than nbits bits are left
TakeErr(in, nbits) == IF Len(in) * 8 < nbits THEN "Eof" ELSE "None"

\* the two nibbles read in the wrong order
PacketBits_Swapped(b) == [packet_type |-> b % 16, packet_flags |-> b \div 16]

\* tuple((take(4), take(4))) on byte b: most significant bits first
PacketBits(b) == [packet_type |-> b \div 16, packet_flags |-> b % 16]

\* tuple((take(1), take(7))) on byte b
LengthBits(b) == [continuation |-> b \div 128, length_value |-> b % 128]

\* ------------------------------------------------------------------------
\* Arithmetic of the accumulation
\* ------------------------------------------------------------------------

\* `<<` on i32 with a u32 amount >= 32 bits is an arithmetic overflow
ShiftOverflow(index) == index >= 32

\* (length_value as i32) << index: bits shifted past bit 31 are dropped, bit 31
\* is the sign, and the amount is masked to 5 bits when overflow checks are off
Shl(length_value, index) ==
    LET n == index % 32
    IN  IF n <= 24
        THEN length_value * 2^n
        ELSE LET low == length_value % 2^(32 - n)
                 sign == 2^(31 - n)
             IN  IF low >= sign
                 THEN I32Min + (low - sign) * 2^n
                 ELSE low * 2^n

\* i32 + i32 leaves the i32 range
AddOverflow(a, b) ==
    \/ a > 0 /\ b > 0 /\ a > I32Max - b
    \/ a < 0 /\ b < 0 /\ a < I32Min - b

\* two's-complement wrapping i32 addition
WrappingAdd(a, b) ==
    IF a > 0 /\ b > 0 /\ a > I32Max - b THEN (a + I32Min) + (b + I32Min)
    ELSE IF a < 0 /\ b < 0 /\ a < I32Min - b THEN (a - I32Min) + (b - I32Min)
    ELSE a + b

\* the chunk is added without being shifted into place
Accumulate_NoShift(acc, length_value, index) == WrappingAdd(acc, length_value)

\* accumulator + ((length_value as i32) << index)
Accumulate(acc, length_value, index) == WrappingAdd(acc, Shl(length_value, index))

\* the statement panics when built with overflow checks
AccumulatePanics(acc, length_value, index) ==
    ShiftOverflow(index) \/ AddOverflow(acc, Shl(length_value, index))

\* the shift advances by a whole byte
NextIndex_Byte(index) == index + 8

\* index += 7 on a u32; index is 7 * iterations, far below the u32 limit for
\* every input the model draws
NextIndex(index) == index + 7

\* ------------------------------------------------------------------------
\* Inputs
\* ------------------------------------------------------------------------

\* all sequences over S of length 0..n
BoundedSeq(S, n) == UNION {[1..k -> S] : k \in 0..n}

\* 0x10 Connect, 0x3C Publish with flags, 0x0F and 0xF0 reserved codes
FirstBytes == {16, 60, 15, 240}

\* 0x00, 0x01, 0x7F terminate; 0x80, 0xFF continue
LenBytes == {0, 1, 127, 128, 255}

\* the inputs of the unit tests, and a terminated field followed by payload
Scenarios == {<<32, 127>>, <<16, 193, 2>>, <<60, 130, 127>>, <<32, 127, 170, 187>>}

\* minimal base-128 continuation-bit encoding of v (MQTT 3.1.1, 2.2.3)
RECURSIVE Encode(_)
Encode(v) == IF v < 128 THEN <<v>> ELSE <<(v % 128) + 128>> \o Encode(v \div 128)

\* five continuation bytes that fill the accumulator to i32::MAX, then a chunk
\* whose addition leaves the i32 range when the shift amount is masked
WrapInputs == {<<16, 255, 255, 255, 255, 135, 1>>, <<16, 255, 255, 255, 255, 135, 129, 0>>}

RoundTripVals ==
    {0, 1, 127, 128, 321, 16258, 16383, 16384, 2097151, 2097152, 268435455}

Inputs ==
    Scenarios
    \cup WrapInputs
    \cup {<<f>> \o s : f \in FirstBytes, s \in BoundedSeq(LenBytes, MaxLen - 1)}
    \cup BoundedSeq(0..255, 1)
    \cup {<<f>> \o s : f \in 0..255, s \in BoundedSeq(LenBytes, MaxTypeLen - 1)}
    \cup {<<16>> \o Encode(v) \o t : v \in RoundTripVals, t \in {<<>>, <<170>>}}

\* ------------------------------------------------------------------------
\* State
\* ------------------------------------------------------------------------

VARIABLES
    input,            \* the slice given to FixedHeader::parse
    overflow_checks,  \* build profile: TRUE panics on overflow, FALSE wraps
    pc,               \* "parse", "loop" or "done"
    printed,          \* bytes visited by the diagnostic loop of parse
    packet_type,      \* result of packet_byte
    packet_flags,
    rest,             \* the slice `input` of remaining_length
    accumulator,
    index,
    iterations,       \* loop iterations that consumed a length byte
    outcome,          \* "Pending", "Ok", "Eof", "MapRes", "Panic"
    remainder,        \* slice returned with Ok
    header            \* <<>> or <<FixedHeader>>

vars ==
    <<input, overflow_checks, pc, printed, packet_type, packet_flags, rest,
      accumulator, index, iterations, outcome, remainder, header>>

Init ==
    /\ input \in Inputs
    /\ overflow_checks \in BOOLEAN
    /\ pc = "parse"
    /\ printed = 0
    /\ packet_type = "None"
    /\ packet_flags = 0
    /\ rest = <<>>
    /\ accumulator = 0
    /\ index = 0
    /\ iterations = 0
    /\ outcome = "Pending"
    /\ remainder = <<>>
    /\ header = <<>>

\* ------------------------------------------------------------------------
\* FixedHeader::parse up to the call of remaining_length
\* ------------------------------------------------------------------------

\* packet_byte fails reading the nibbles: empty input
PacketByteEof ==
    /\ pc = "parse"
    /\ TakeErr(input, 4) # "None"
    /\ printed' = Len(input)
    /\ outcome' = TakeErr(input, 4)
    /\ pc' = "done"
    /\ UNCHANGED <<input, overflow_checks, packet_type, packet_flags, rest,
                   accumulator, index, iterations, remainder, header>>

\* try_into fails inside map_res: ErrorKind::MapRes
PacketByteInvalid ==
    /\ pc = "parse"
    /\ TakeErr(input, 4) = "None"
    /\ ~TryFromU8(PacketBits(input[1]).packet_type).ok
    /\ printed' = Len(input)
    /\ outcome' = "MapRes"
    /\ pc' = "done"
    /\ UNCHANGED <<input, overflow_checks, packet_type, packet_flags, rest,
                   accumulator, index, iterations, remainder, header>>

\* packet_byte succeeds; remaining_length starts on the following bytes
PacketByteOk ==
    /\ pc = "parse"
    /\ TakeErr(input, 4) = "None"
    /\ TryFromU8(PacketBits(input[1]).packet_type).ok
    /\ printed' = Len(input)
    /\ packet_type' = TryFromU8(PacketBits(input[1]).packet_type).variant
    /\ packet_flags' = PacketBits(input[1]).packet_flags
    /\ rest' = Tail(input)
    /\ accumulator' = 0
    /\ index' = 0
    /\ pc' = "loop"
    /\ UNCHANGED <<input, overflow_checks, iterations, outcome, remainder, header>>

\* ------------------------------------------------------------------------
\* remaining_length: one loop iteration per step
\* ------------------------------------------------------------------------

\* the bit reader fails: no byte left
LoopEof ==
    /\ pc = "loop"
    /\ TakeErr(rest, 1) # "None"
    /\ outcome' = TakeErr(rest, 1)
    /\ pc' = "done"
    /\ UNCHANGED <<input, overflow_checks, printed, packet_type, packet_flags,
                   rest, accumulator, index, iterations, remainder, header>>

\* the accumulation overflows in a build with overflow checks
LoopPanic ==
    /\ pc = "loop"
    /\ TakeErr(rest, 1) = "None"
    /\ overflow_checks
    /\ AccumulatePanics(accumulator, LengthBits(rest[1]).length_value, index)
    /\ rest' = Tail(rest)
    /\ iterations' = iterations + 1
    /\ outcome' = "Panic"
    /\ pc' = "done"
    /\ UNCHANGED <<input, overflow_checks, printed, packet_type, packet_flags,
                   accumulator, index, remainder, header>>

\* continuation bit clear: break, return, and parse assembles the header
LoopBreak ==
    /\ pc = "loop"
    /\ TakeErr(rest, 1) = "None"
    /\ overflow_checks =>
         ~AccumulatePanics(accumulator, LengthBits(rest[1]).length_value, index)
    /\ LengthBits(rest[1]).continuation # 1
    /\ rest' = Tail(rest)
    /\ accumulator' = Accumulate(accumulator, LengthBits(rest[1]).length_value, index)
    /\ iterations' = iterations + 1
    /\ outcome' = "Ok"
    /\ remainder' = rest'
    /\ header' = <<[packet_type |-> packet_type,
                    packet_flags |-> packet_flags,
                    remaining_length |-> accumulator']>>
    /\ pc' = "done"
    /\ UNCHANGED <<input, overflow_checks, printed, packet_type, packet_flags, index>>

\* continuation bit set: next iteration
LoopContinue ==
    /\ pc = "loop"
    /\ TakeErr(rest, 1) = "None"
    /\ overflow_checks =>
         ~AccumulatePanics(accumulator, LengthBits(rest[1]).length_value, index)
    /\ LengthBits(rest[1]).continuation = 1
    /\ rest' = Tail(rest)
    /\ accumulator' = Accumulate(accumulator, LengthBits(rest[1]).length_value, index)
    /\ index' = NextIndex(index)
    /\ iterations' = iterations + 1
    /\ UNCHANGED <<input, overflow_checks, pc, printed, packet_type, packet_flags,
                   outcome, remainder, header>>

Next ==
    \/ PacketByteEof
    \/ PacketByteInvalid
    \/ PacketByteOk
    \/ LoopEof
    \/ LoopPanic
    \/ LoopBreak
    \/ LoopContinue

Spec == Init /\ [][Next]_vars

\* ------------------------------------------------------------------------
\* Vocabulary of the properties
\* ------------------------------------------------------------------------

\* wire code -> variant, in the order of the enum declaration
Variants ==
    <<"Connect", "Connack", "Publish", "Puback", "PubRec", "PubRel", "PubComp",
      "Subscribe", "Suback", "Unsubscribe", "Unsuback", "PingReq", "PingResp",
      "Disconnect">>

\* error kinds of the specification as the parser reports them
UnexpectedEndOfInput == "Eof"

InvalidPacketType == "MapRes"

MalformedVariableLength == "MalformedVariableLength"

\* four 7-bit groups
MaxRemainingLength == 128^4 - 1

\* high nibble of byte 0 of a non-empty input
HighNibble == input[1] \div 16

\* byte 0 is present and carries a packet-type code in 1..14
ValidFirst == Len(input) >= 1 /\ HighNibble \in 1..14

\* the bytes after byte 0
Field == Tail(input)

\* 1-based position in s of the first byte with continuation bit 0, 0 if none
FirstTerm(s) ==
    IF \E k \in 1..Len(s) : s[k] < 128
    THEN CHOOSE k \in 1..Len(s) : s[k] < 128 /\ \A j \in 1..(k - 1) : s[j] >= 128
    ELSE 0

\* sum over the first n bytes of s of (s[i] mod 128) * 128^(i-1)
RECURSIVE ChunkSum(_, _)
ChunkSum(s, n) == IF n = 0 THEN 0 ELSE ChunkSum(s, n - 1) + (s[n] % 128) * 128^(n - 1)

\* number of bytes of the minimal encoding of v
MinBytes(v) == IF v <= 127 THEN 1 ELSE IF v <= 16383 THEN 2 ELSE IF v <= 2097151 THEN 3 ELSE 4

\* s begins with the sequence p
StartsWith(s, p) == Len(s) >= Len(p) /\ SubSeq(s, 1, Len(p)) = p

\* ------------------------------------------------------------------------
\* Properties
\* ------------------------------------------------------------------------

\* C1: when the first remaining-length byte with continuation bit 0 is at
\* index k in 0..3, the decoder succeeds, returns the sum of
\* (byte[i] mod 128) * 128^i over i in 0..k, and stops at byte k.
C1_DecodesChunkSum ==
    (pc = "done" /\ ValidFirst /\ FirstTerm(Field) \in 1..4) =>
        /\ outcome = "Ok"
        /\ header[1].remaining_length = ChunkSum(Field, FirstTerm(Field))
        /\ iterations = FirstTerm(Field)
        /\ remainder = SubSeq(Field, FirstTerm(Field) + 1, Len(Field))

C1_Witness ==
    /\ pc = "done"
    /\ ValidFirst
    /\ StartsWith(Field, <<128, 0>>)
    /\ outcome = "Ok"
    /\ header[1].remaining_length = 0
    /\ iterations = 2

\* C2: four leading continuation bytes in the remaining-length field, with
\* a 5th byte present, make decoding fail with MalformedVariableLength.
C2_FifthByteMalformed ==
    (pc = "done" /\ ValidFirst /\ Len(Field) >= 5
        /\ \A k \in 1..4 : Field[k] >= 128) =>
        outcome = MalformedVariableLength

\* C3: every FixedHeader returned has remaining_length in 0..268435455,
\* reconstructed from at most 4 encoded bytes.
C3_RemainingLengthRange ==
    outcome = "Ok" =>
        /\ header[1].remaining_length \in 0..MaxRemainingLength
        /\ iterations <= 4

\* C4: decoding the minimal encoding of v returns v and consumes exactly
\* the 1, 2, 3 or 4 bytes of that encoding.
C4_RoundTrip ==
    \A v \in RoundTripVals :
        (pc = "done" /\ ValidFirst /\ StartsWith(Field, Encode(v))) =>
            /\ outcome = "Ok"
            /\ header[1].remaining_length = v
            /\ Len(Encode(v)) = MinBytes(v)
            /\ iterations = MinBytes(v)
            /\ Len(input) - Len(remainder) = 1 + MinBytes(v)

C4_Witness ==
    /\ pc = "done"
    /\ ValidFirst
    /\ StartsWith(Field, Encode(MaxRemainingLength))
    /\ outcome = "Ok"
    /\ header[1].remaining_length = MaxRemainingLength
    /\ iterations = 4

\* C5: codes 1..14 resolve to the 14 variants one-to-one, 0 and 15 fail with
\* InvalidPacketType carrying the code, and parse fails with InvalidPacketType
\* on a high nibble 0 or 15 whatever bytes follow.
C5_PacketTypeResolution ==
    (pc # "parse" /\ Len(input) >= 1) =>
        /\ HighNibble \in {0, 15} =>
              /\ pc = "done"
              /\ outcome = InvalidPacketType
              /\ header = <<>>
              /\ ~TryFromU8(HighNibble).ok
              /\ TryFromU8(HighNibble).value = HighNibble
        /\ HighNibble \in 1..14 =>
              /\ outcome # InvalidPacketType
              /\ packet_type = Variants[HighNibble]
              /\ \A c \in 1..14 :
                    TryFromU8(c).variant = packet_type => c = HighNibble

C5_Witness ==
    /\ pc = "done"
    /\ Len(input) = 3
    /\ HighNibble = 15
    /\ \A k \in 1..2 : Field[k] >= 128
    /\ outcome = InvalidPacketType

\* C6: parse fails with UnexpectedEndOfInput and produces no FixedHeader when
\* the input is empty, or byte 0 is valid and is followed by zero to three
\* bytes that all have continuation bit 1.
C6_UnexpectedEnd ==
    (pc = "done" /\ (input = <<>> \/
        (ValidFirst /\ Len(Field) <= 3 /\ \A k \in 1..Len(Field) : Field[k] >= 128))) =>
        /\ outcome = UnexpectedEndOfInput
        /\ header = <<>>

C6_Witness ==
    /\ pc = "done"
    /\ ValidFirst
    /\ Len(Field) = 3
    /\ \A k \in 1..3 : Field[k] >= 128
    /\ outcome = UnexpectedEndOfInput
    /\ iterations = 3

\* C7: on success the remainder is the suffix after the first remaining-length
\* byte with continuation bit 0, the cursor has advanced by 1 + n bytes with
\* n in 1..4, and consumed prefix followed by remainder is the input.
C7_RemainderIsSuffix ==
    outcome = "Ok" =>
        /\ FirstTerm(Field) \in 1..4
        /\ Len(input) - Len(remainder) = 1 + FirstTerm(Field)
        /\ remainder = SubSeq(input, 2 + FirstTerm(Field), Len(input))
        /\ SubSeq(input, 1, 1 + FirstTerm(Field)) \o remainder = input

\* C8: a byte 0 with high nibble h in 1..14 followed by a well-formed
\* remaining-length field gives success with packet_type the variant of h
\* and packet_flags the low nibble of byte 0.
C8_TypeAndFlags ==
    (pc = "done" /\ ValidFirst /\ FirstTerm(Field) \in 1..4) =>
        /\ outcome = "Ok"
        /\ Len(header) = 1
        /\ header[1].packet_type = Variants[HighNibble]
        /\ header[1].packet_flags = input[1] % 16

C8_Witness ==
    /\ pc = "done"
    /\ input = <<60, 130, 127>>
    /\ outcome = "Ok"
    /\ header = <<[packet_type |-> "Publish", packet_flags |-> 12,
                   remaining_length |-> 16258]>>
    /\ remainder = <<>>

\* C9: the remaining-length loop runs at most 4 iterations and parse reads
\* at most the first 5 bytes, whatever the input length.
C9_BoundedWork ==
    /\ iterations <= 4
    /\ Len(input) - Len(rest) <= 5 \/ pc = "parse"
    /\ printed <= 5

\* C10: the shift amount never reaches 32, no shifted chunk or running sum
\* leaves the signed 32-bit range, and no success returns a negative length.
C10_NoOverflow ==
    /\ (pc = "loop" /\ rest # <<>>) =>
          /\ index < 32
          /\ index <= 24 \/ LengthBits(rest[1]).length_value < 2^(31 - index)
          /\ ~AddOverflow(accumulator, Shl(LengthBits(rest[1]).length_value, index))
    /\ outcome = "Ok" => header[1].remaining_length >= 0

====
